---- MODULE Spec2Model ----
(***************************************************************************)
(* DumbPad server (server.js): the PIN gate, the per-IP brute force map,   *)
(* and the notepad registry / note files kept under data/.                 *)
(*                                                                         *)
(* A request is handled as Node runs it: the middleware and the handler's  *)
(* code up to its first await run in one step; every await is one more     *)
(* step, in which the awaited fs call takes effect and the code after it   *)
(* runs up to the next await or the response. Steps of different requests  *)
(* interleave freely. A write replaces the whole file at once. An fs call   *)
(* fails only for a file that is not there, except in SpecFaults, where    *)
(* any fs call may fail and a failed write may leave its file cut short.   *)
(***************************************************************************)
EXTENDS Integers, Sequences, FiniteSets, Bags, TLC

\* ------------------------------------------------------------------ bounds
\* Date.now() runs over 1..MaxTime, in milliseconds from the start of the server;
\* a notepad left by an earlier run has the id "0".
MaxTime == 2
\* Requests in flight at once.
MaxInFlight == 2
\* Requests a run of Spec lets into the handlers that await (the others, and
\* the requests the middleware turns away, are not counted).
MaxRequests == 2

\* ------------------------------------------------------- program constants
MAX_ATTEMPTS == 5
LOCKOUT_TIME == 900000
MinPinLen == 4
MaxPinLen == 10

\* ------------------------------------------------------------ JS values
\* A JS value that may reach isValidPin / secureCompare: undefined, a number
\* or a string (a sequence of one-character strings).
Undefined == [type |-> "undefined", val |-> <<>>]
Str(s) == [type |-> "string", val |-> s]
Num(n) == [type |-> "number", val |-> <<n>>]

Digits == {"0", "1", "2", "3", "4", "5", "6", "7", "8", "9"}

\* "1234567890123..." cut to n characters.
DigitStr(n) == [i \in 1..n |-> ToString(i % 10)]
WithLast(s, ch) == [i \in 1..Len(s) |-> IF i = Len(s) THEN ch ELSE s[i]]

\* Lengths around the two ends of \d{4,10}.
SampleLens == {MinPinLen - 1, MinPinLen, MaxPinLen, MaxPinLen + 1}

\* process.env.DUMBPAD_PIN: unset, empty, or a string: digits of the sample
\* lengths, and a PIN with a letter in it.
EnvPins ==
    {Undefined, Str(<<>>), Str(WithLast(DigitStr(MinPinLen), "a"))}
        \cup {Str(DigitStr(n)) : n \in SampleLens}
\* req.headers['x-pin']: missing, or a string: the above, and a PIN that
\* differs from DigitStr(MinPinLen) in its last digit only.
HeaderPins == EnvPins \cup {Str(WithLast(DigitStr(MinPinLen), "9"))}
\* req.body.pin: missing, a string, or a JSON number.
BodyPins == HeaderPins \cup {Num(1234)}

\* !v for the values above.
Falsy(v) ==
    \/ v.type = "undefined"
    \/ v.type = "string" /\ v.val = <<>>
    \/ v.type = "number" /\ v.val = <<0>>

\* typeof pin === 'string' && /^\d{4,10}$/.test(pin)
isValidPin(pin) ==
    /\ pin.type = "string"
    /\ Len(pin.val) >= MinPinLen
    /\ Len(pin.val) <= MaxPinLen
    /\ \A i \in 1..Len(pin.val) : pin.val[i] \in Digits

\* crypto.timingSafeEqual throws on buffers of different length (caught:
\* false), else compares byte by byte.
secureCompare(a, b) ==
    IF a.type # "string" \/ b.type # "string" THEN FALSE
    ELSE IF Len(a.val) # Len(b.val) THEN FALSE
    ELSE \A i \in 1..Len(a.val) : a.val[i] = b.val[i]

\* ------------------------------------------------------------------ state
VARIABLES
    PIN,            \* process.env.DUMBPAD_PIN, fixed when the server starts
    now,            \* Date.now()
    loginAttempts,  \* the Map ip -> {count, lastAttempt}, as a function on its keys
    notepadsFile,   \* data/notepads.json: [st, pads], st absent | unparseable | invalid | ok
    noteFiles,      \* data/<id>.txt: a function on the ids whose file exists
    reqs,           \* the requests in flight: a bag of [pc, op, ip, id, arg, data, pad, sent]
    gate,           \* the routing decision taken by this step, if it took one
    resp,           \* the response written by this step, if it wrote one
    streak,         \* per ip: consecutive 401 answers of POST /api/verify-pin
    succ,           \* answers of the latest POST /api/notepads run back to back
    budget,         \* how many more requests the run lets into a handler that awaits
    expect,         \* per note id: the text its last save or delete answered for,
                    \* while no other save or delete of the id has come since
    deleted         \* the ids a DELETE /api/notepads/:id has answered 200 for

vars == <<PIN, now, loginAttempts, notepadsFile, noteFiles, reqs, gate, resp,
          streak, succ, budget, expect, deleted>>

None == [k |-> "none"]
NoGate == [op |-> "none", pin |-> Undefined, id |-> "none", decision |-> "none"]
NoResp == [op |-> "none", ip |-> "none", status |-> 0, by |-> "none", body |-> None]


\* ---------------------------------------------------------- brute force map
\* loginAttempts.delete(ip)
resetAttempts(m, ip) == [k \in (DOMAIN m) \ {ip} |-> m[k]]

\* The value isLockedOut(ip) returns.
isLockedOut(m, ip) ==
    /\ ip \in DOMAIN m
    /\ m[ip].count >= MAX_ATTEMPTS
    /\ now - m[ip].lastAttempt < LOCKOUT_TIME

\* The map isLockedOut(ip) leaves behind: a record at or past MAX_ATTEMPTS
\* whose window has passed is deleted.
isLockedOutMap(m, ip) ==
    IF /\ ip \in DOMAIN m
       /\ m[ip].count >= MAX_ATTEMPTS
       /\ ~(now - m[ip].lastAttempt < LOCKOUT_TIME)
    THEN resetAttempts(m, ip)
    ELSE m

recordAttempt(m, ip) ==
    LET attempts == IF ip \in DOMAIN m THEN m[ip] ELSE [count |-> 0, lastAttempt |-> 0]
    IN  [k \in (DOMAIN m) \cup {ip} |->
            IF k = ip THEN [count |-> attempts.count + 1, lastAttempt |-> now]
            ELSE m[k]]

\* The setInterval callback.
cleanup(m) == [k \in {i \in DOMAIN m : ~(now - m[i].lastAttempt >= LOCKOUT_TIME)} |-> m[k]]

\* ---------------------------------------------------------------- routing
\* app.post / app.get / app.use in the order server.js registers them.
Layers == <<"verify-pin", "pin-required", "config", "use-api",
            "list", "create", "rename", "read", "save", "delete">>
LayerIndex(l) == CHOOSE i \in 1..Len(Layers) : Layers[i] = l

\* req.path inside the /api mount.
ReqPath(op) ==
    CASE op = "verify-pin"   -> "/verify-pin"
      [] op = "pin-required" -> "/pin-required"
      [] op = "config"       -> "/config"
      [] op \in {"list", "create", "rename", "delete"} -> "/notepads"
      [] OTHER               -> "/notes"

\* requirePin without its format check: a malformed x-pin is compared and
\* answered 401.
requirePinUnchecked(providedPin) ==
    IF Falsy(PIN) THEN "next"
    ELSE IF Falsy(providedPin) \/ ~secureCompare(providedPin, PIN) THEN "401"
    ELSE "next"

requirePin(providedPin) ==
    IF Falsy(PIN) THEN "next"
    ELSE IF ~isValidPin(providedPin) THEN "400"
    ELSE IF Falsy(providedPin) \/ ~secureCompare(providedPin, PIN) THEN "401"
    ELSE "next"

\* The routes registered after the middleware: only the two paths it names
\* get past it unchecked.
DispatchByPath(op, providedPin) ==
    IF ReqPath(op) = "/verify-pin" \/ ReqPath(op) = "/pin-required" THEN "route"
    ELSE requirePin(providedPin)

\* What Express does with a request before its route handler runs: "route" when
\* the route is registered ahead of the middleware (it answers and the
\* middleware never sees the request), else the middleware's verdict.
Dispatch(op, providedPin) ==
    IF LayerIndex(op) < LayerIndex("use-api") THEN "route"
    ELSE IF ReqPath(op) = "/verify-pin" \/ ReqPath(op) = "/pin-required" THEN "next"
    ELSE requirePin(providedPin)

Denied(d) == d \in {"400", "401"}

Response(op, ip, status, by, body) ==
    [op |-> op, ip |-> ip, status |-> status, by |-> by, body |-> body]

\* res.status(400|401).json({error}) written by requirePin.
GateDenies(op, ip, d) ==
    /\ Denied(d)
    /\ resp' = Response(op, ip, IF d = "400" THEN 400 ELSE 401, "gate", None)
    /\ succ' = <<>>
    /\ UNCHANGED <<PIN, budget, now, loginAttempts, notepadsFile, noteFiles, reqs, streak, expect, deleted>>

\* ------------------------------------------------------- the exempt routes
VerifyStatus(pin) ==
    IF Falsy(PIN) THEN 200
    ELSE IF ~isValidPin(pin) THEN 400
    ELSE IF ~Falsy(pin) /\ secureCompare(pin, PIN) THEN 200
    ELSE 401

\* gate.pin is the body's pin here: the handler never reads the x-pin header.
VerifyPin(ip, pin) ==
    LET d == Dispatch("verify-pin", Undefined)
        status == VerifyStatus(pin)
    IN  /\ gate' = [op |-> "verify-pin", pin |-> pin, id |-> "none", decision |-> d]
        /\ IF Denied(d) THEN GateDenies("verify-pin", ip, d)
           ELSE
              /\ resp' = Response("verify-pin", ip, status, "handler",
                                  [k |-> "verify", success |-> (status = 200)])
              /\ streak' = [streak EXCEPT ![ip] =
                              IF status = 401
                              THEN (IF @ < MAX_ATTEMPTS THEN @ + 1 ELSE @)
                              ELSE 0]
              /\ succ' = <<>>
              /\ UNCHANGED <<PIN, budget, now, loginAttempts, notepadsFile, noteFiles, reqs, expect, deleted>>

PinRequired(ip, xpin) ==
    LET d == Dispatch("pin-required", xpin)
    IN  /\ gate' = [op |-> "pin-required", pin |-> xpin, id |-> "none", decision |-> d]
        /\ IF Denied(d) THEN GateDenies("pin-required", ip, d)
           ELSE
              /\ resp' = Response("pin-required", ip, 200, "handler",
                            [k |-> "pin-required",
                             required |-> (~Falsy(PIN) /\ isValidPin(PIN)),
                             length |-> IF Falsy(PIN) THEN 0 ELSE Len(PIN.val),
                             locked |-> isLockedOut(loginAttempts, ip)])
              /\ loginAttempts' = isLockedOutMap(loginAttempts, ip)
              /\ succ' = <<>>
              /\ UNCHANGED <<PIN, budget, now, notepadsFile, noteFiles, reqs, streak, expect, deleted>>

Config(ip, xpin) ==
    LET d == Dispatch("config", xpin)
    IN  /\ gate' = [op |-> "config", pin |-> xpin, id |-> "none", decision |-> d]
        /\ IF Denied(d) THEN GateDenies("config", ip, d)
           ELSE
              /\ resp' = Response("config", ip, 200, "handler", [k |-> "config"])
              /\ succ' = <<>>
              /\ UNCHANGED <<PIN, budget, now, loginAttempts, notepadsFile, noteFiles, reqs, streak, expect, deleted>>

\* ------------------------------------------------------------ environment
\* Date.now() moves on one millisecond. The clock is read by POST
\* /api/notepads for its id and by the brute force map for its records; it is
\* let move when one of them is about to read it, which leaves out no
\* sequence of values they can read.
Tick ==
    /\ now < MaxTime
    /\ loginAttempts # <<>> \/ \E r \in BagToSet(reqs) : r.pc = "c_parsed"
    /\ now' = now + 1
    /\ gate' = NoGate /\ resp' = NoResp
    /\ UNCHANGED <<PIN, budget, loginAttempts, notepadsFile, noteFiles, reqs, streak, succ, expect, deleted>>

\* setInterval(..., 60000): the sweep of loginAttempts.
Cleanup ==
    /\ loginAttempts' = cleanup(loginAttempts)
    /\ gate' = NoGate /\ resp' = NoResp
    /\ UNCHANGED <<PIN, budget, now, notepadsFile, noteFiles, reqs, streak, succ, expect, deleted>>

\* ------------------------------------------------------------- data/ files
DefaultPads == <<[id |-> "default", name |-> "Default Notepad"]>>
Registry(pads) == [st |-> "ok", pads |-> pads]
NoRegistry == [st |-> "absent", pads |-> <<>>]
\* Not JSON at all, and JSON without an array under "notepads".
Unparseable == [st |-> "unparseable", pads |-> <<>>]
Invalid == [st |-> "invalid", pads |-> <<>>]

\* `Notepad ${n}`
PadName(n) == "Notepad " \o ToString(n)

\* fs.writeFile(path.join(DATA_DIR, `${id}.txt`), text)
WriteNote(files, id, text) ==
    [i \in (DOMAIN files) \cup {id} |-> IF i = id THEN text ELSE files[i]]
\* fs.unlink
Unlink(files, id) == [i \in (DOMAIN files) \ {id} |-> files[i]]

\* data.notepads.findIndex(n => n.id === id), 0 for -1.
FindIndex(pads, id) ==
    IF \E i \in 1..Len(pads) : pads[i].id = id
    THEN CHOOSE i \in 1..Len(pads) :
            /\ pads[i].id = id
            /\ \A j \in 1..(i - 1) : pads[j].id # id
    ELSE 0

\* splice(i - 1, 1): the entry before the one found is removed.
SpliceBefore(pads, i) ==
    [j \in 1..(Len(pads) - 1) |-> IF j < i - 1 THEN pads[j] ELSE pads[j + 1]]

\* data.notepads.splice(i, 1)
Splice(pads, i) == [j \in 1..(Len(pads) - 1) |-> IF j < i THEN pads[j] ELSE pads[j + 1]]

\* ------------------------------------------------------ requests in flight
InFlight == BagToSet(reqs)

Quiet == gate' = NoGate /\ resp' = NoResp

\* The request r is now q.
Becomes(r, q) == reqs' = (reqs (-) SetToBag({r})) (+) SetToBag({q})
\* The request r goes on to wait for its next fs call.
Goto(r, pc) == Becomes(r, [r EXCEPT !.pc = pc])
\* res.json / res.status(..).json: the request r is answered.
Answer(r, status, body) ==
    /\ resp' = Response(r.op, r.ip, status, "handler", body)
    /\ reqs' = reqs (-) SetToBag({r})
    /\ gate' = NoGate

\* What the callers have been told about the note `id`: nothing that still
\* stands (Forget), or, by the answer of a save or a delete, that it holds
\* `text` (Told).
Forget(f, id) == [i \in (DOMAIN f) \ {id} |-> f[i]]
Told(f, op, id, text) ==
    [i \in (DOMAIN f) \cup {id} |-> IF i = id THEN [by |-> op, text |-> text] ELSE f[i]]
\* Some request in flight besides r saves or deletes the id r does.
Contended(r) ==
    \E q \in BagToSet(reqs (-) SetToBag({r})) : q.op \in {"save", "delete"} /\ q.id = r.id

\* What holds when a list or a read is sent: the state of notepads.json, and
\* what the callers have been told by then.
Sent(op) ==
    IF op \in {"list", "read"}
    THEN [st |-> notepadsFile.st, deleted |-> deleted, told |-> expect]
    ELSE [st |-> "none", deleted |-> {}, told |-> <<>>]

\* A gated request arrives: the middleware decides, and the handler runs up to
\* its first await, which leaves the request waiting at `pc`.
Arrive(op, ip, xpin, id, arg, pc) ==
    LET d == Dispatch(op, xpin)
    IN  /\ gate' = [op |-> op, pin |-> xpin, id |-> id, decision |-> d]
        /\ IF Denied(d) THEN GateDenies(op, ip, d)
           ELSE /\ BagCardinality(reqs) < MaxInFlight
                /\ budget > 0
                /\ budget' = budget - 1
                /\ reqs' = reqs (+) SetToBag({[pc |-> pc, op |-> op, ip |-> ip, id |-> id,
                                               arg |-> arg, data |-> <<>>, pad |-> None,
                                               sent |-> Sent(op)]})
                /\ resp' = NoResp
                /\ succ' = IF op = "create" /\ reqs = EmptyBag THEN succ ELSE <<>>
                /\ expect' = IF op \in {"save", "delete"} THEN Forget(expect, id) ELSE expect
                /\ UNCHANGED <<PIN, now, loginAttempts, notepadsFile, noteFiles, streak, deleted>>

\* ---------------------------------------------------------- ensureDataDir
\* Where the caller of ensureDataDir goes on: GET /api/notepads reads the
\* registry, POST /api/notes/:id writes the note.
AfterEnsure(r) == IF r.op = "list" THEN "l_read" ELSE "s_write"

\* await fs.mkdir(DATA_DIR, {recursive: true}), which finds data/ there and
\* changes nothing, then await fs.access(NOTEPADS_FILE): a missing file is
\* created.
EnsureAccess(r) ==
    /\ r.pc = "e_access"
    /\ Goto(r, IF notepadsFile.st = "absent" THEN "e_create" ELSE "e_read")
    /\ Quiet
    /\ UNCHANGED <<PIN, budget, now, loginAttempts, notepadsFile, noteFiles, streak, succ, expect, deleted>>

\* await fs.readFile(NOTEPADS_FILE), JSON.parse and the structure check.
EnsureRead(r) ==
    /\ r.pc = "e_read"
    /\ Goto(r, CASE notepadsFile.st = "ok" -> "e_accessDefault"
                 [] notepadsFile.st = "absent" -> "e_create"
                 [] OTHER -> "e_rewrite")
    /\ Quiet
    /\ UNCHANGED <<PIN, budget, now, loginAttempts, notepadsFile, noteFiles, streak, succ, expect, deleted>>

\* The inner catch logs and leaves the file as it found it.
EnsureRewriteSkipped(r) ==
    /\ r.pc = "e_rewrite"
    /\ Goto(r, "e_accessDefault")
    /\ Quiet
    /\ UNCHANGED <<PIN, budget, now, loginAttempts, notepadsFile, noteFiles, streak, succ,
                   expect, deleted>>

\* await fs.writeFile(NOTEPADS_FILE, ...) of the inner catch: "recreating".
EnsureRewrite(r) ==
    /\ r.pc = "e_rewrite"
    /\ notepadsFile' = Registry(DefaultPads)
    /\ Goto(r, "e_accessDefault")
    /\ Quiet
    /\ UNCHANGED <<PIN, budget, now, loginAttempts, noteFiles, streak, succ, expect, deleted>>

\* await fs.writeFile(NOTEPADS_FILE, ...) of the outer catch: "Creating new".
EnsureCreate(r) ==
    /\ r.pc = "e_create"
    /\ notepadsFile' = Registry(DefaultPads)
    /\ Goto(r, "e_accessDefault")
    /\ Quiet
    /\ UNCHANGED <<PIN, budget, now, loginAttempts, noteFiles, streak, succ, expect, deleted>>

\* await fs.access(defaultNotePath)
EnsureAccessDefault(r) ==
    /\ r.pc = "e_accessDefault"
    /\ Goto(r, IF "default" \in DOMAIN noteFiles THEN AfterEnsure(r) ELSE "e_writeDefault")
    /\ Quiet
    /\ UNCHANGED <<PIN, budget, now, loginAttempts, notepadsFile, noteFiles, streak, succ, expect, deleted>>

\* await fs.writeFile(defaultNotePath, '')
EnsureWriteDefault(r) ==
    /\ r.pc = "e_writeDefault"
    /\ noteFiles' = WriteNote(noteFiles, "default", "")
    /\ Goto(r, AfterEnsure(r))
    /\ Quiet
    /\ UNCHANGED <<PIN, budget, now, loginAttempts, notepadsFile, streak, succ, expect, deleted>>

\* ------------------------------------------------------ GET /api/notepads
ListStart(ip, xpin) == Arrive("list", ip, xpin, "none", "none", "e_access")

\* await fs.readFile(NOTEPADS_FILE) and JSON.parse: text that is not JSON is
\* a 500, anything that parses is sent back as it is.
ListRead(r) ==
    /\ r.pc = "l_read"
    /\ IF notepadsFile.st \in {"ok", "invalid"}
       THEN Answer(r, 200, [k |-> "list", st |-> notepadsFile.st, notepads |-> notepadsFile.pads])
       ELSE Answer(r, 500, None)
    /\ succ' = <<>>
    /\ UNCHANGED <<PIN, budget, now, loginAttempts, notepadsFile, noteFiles, streak, expect, deleted>>

\* ----------------------------------------------------- POST /api/notepads
CreateStart(ip, xpin) == Arrive("create", ip, xpin, "none", "none", "c_read")

\* await fs.readFile(NOTEPADS_FILE) completes: JSON.parse; a missing file,
\* text that is not JSON or a value without .notepads.length throws: 500.
CreateRead(r) ==
    /\ r.pc = "c_read"
    /\ IF notepadsFile.st = "ok"
       THEN /\ Becomes(r, [r EXCEPT !.pc = "c_parsed", !.data = notepadsFile.pads])
            /\ Quiet
            /\ UNCHANGED succ
       ELSE /\ Answer(r, 500, None)
            /\ succ' = <<>>
    /\ UNCHANGED <<PIN, budget, now, loginAttempts, notepadsFile, noteFiles, streak, expect, deleted>>

\* The code after the read: id = Date.now().toString(), the name from the
\* length read, push, and fs.writeFile(NOTEPADS_FILE, ...) is issued.
CreateBuild(r) ==
    /\ r.pc = "c_parsed"
    /\ LET newNotepad == [id |-> ToString(now), name |-> PadName(Len(r.data) + 1)]
       IN  Becomes(r, [r EXCEPT !.pc = "c_write",
                                    !.pad = newNotepad,
                                    !.data = Append(@, newNotepad)])
    /\ Quiet
    /\ UNCHANGED <<PIN, budget, now, loginAttempts, notepadsFile, noteFiles, streak, succ, expect, deleted>>

\* await fs.writeFile(NOTEPADS_FILE, JSON.stringify(data))
CreateWrite(r) ==
    /\ r.pc = "c_write"
    /\ notepadsFile' = Registry(r.data)
    /\ Goto(r, "c_note")
    /\ Quiet
    /\ UNCHANGED <<PIN, budget, now, loginAttempts, noteFiles, streak, succ, expect, deleted>>

\* await fs.writeFile(`${id}.txt`, '') and res.json(newNotepad)
CreateNote(r) ==
    /\ r.pc = "c_note"
    /\ noteFiles' = WriteNote(noteFiles, r.pad.id, "")
    /\ Answer(r, 200, [k |-> "pad", pad |-> r.pad])
    /\ succ' = IF BagCardinality(reqs) = 1
               THEN (IF succ = <<>> THEN <<r.pad>>
                     ELSE <<succ[Len(succ)], r.pad>>)
               ELSE <<>>
    /\ UNCHANGED <<PIN, budget, now, loginAttempts, notepadsFile, streak, expect, deleted>>

\* -------------------------------------------------- PUT /api/notepads/:id
RenameStart(ip, xpin, id, name) == Arrive("rename", ip, xpin, id, name, "r_read")

\* notepad.name = name on the first entry with the id.
SetName(pads, i, name) == [pads EXCEPT ![i].name = name]

\* await fs.readFile(NOTEPADS_FILE) completes: parse, find, 404 or the
\* renamed list goes to fs.writeFile.
RenameRead(r) ==
    /\ r.pc = "r_read"
    /\ LET i == FindIndex(notepadsFile.pads, r.id)
       IN  IF notepadsFile.st # "ok" THEN Answer(r, 500, None)
           ELSE IF i = 0 THEN Answer(r, 404, None)
           ELSE /\ Becomes(r, [r EXCEPT !.pc = "r_write",
                                            !.data = SetName(notepadsFile.pads, i, r.arg),
                                            !.pad = [id |-> r.id, name |-> r.arg]])
                /\ Quiet
    /\ succ' = <<>>
    /\ UNCHANGED <<PIN, budget, now, loginAttempts, notepadsFile, noteFiles, streak, expect, deleted>>

\* await fs.writeFile(NOTEPADS_FILE, JSON.stringify(data)) and res.json(notepad)
RenameWrite(r) ==
    /\ r.pc = "r_write"
    /\ notepadsFile' = Registry(r.data)
    /\ Answer(r, 200, [k |-> "pad", pad |-> r.pad])
    /\ succ' = <<>>
    /\ UNCHANGED <<PIN, budget, now, loginAttempts, noteFiles, streak, expect, deleted>>

\* ------------------------------------------------------ GET /api/notes/:id
ReadStart(ip, xpin, id) == Arrive("read", ip, xpin, id, "none", "n_read")

\* await fs.readFile(notePath, 'utf8').catch(() => '')
NoteRead(r) ==
    /\ r.pc = "n_read"
    /\ Answer(r, 200, [k |-> "note",
                       content |-> IF r.id \in DOMAIN noteFiles
                                   THEN noteFiles[r.id] ELSE ""])
    /\ succ' = <<>>
    /\ UNCHANGED <<PIN, budget, now, loginAttempts, notepadsFile, noteFiles, streak, expect, deleted>>

\* ----------------------------------------------------- POST /api/notes/:id
SaveStart(ip, xpin, id, content) == Arrive("save", ip, xpin, id, content, "e_access")

\* await fs.writeFile(`${id}.txt`, req.body.content)
SaveWrite(r) ==
    /\ r.pc = "s_write"
    /\ noteFiles' = WriteNote(noteFiles, r.id, r.arg)
    /\ Answer(r, 200, [k |-> "saved"])
    /\ succ' = <<>>
    /\ expect' = IF Contended(r) THEN Forget(expect, r.id) ELSE Told(expect, "save", r.id, r.arg)
    /\ UNCHANGED <<PIN, budget, now, loginAttempts, notepadsFile, streak, deleted>>

\* ----------------------------------------------- DELETE /api/notepads/:id
\* The check against another spelling of the id.
IsDefaultCapital(id) == id = "Default"

\* The check the handler makes before it reads anything.
IsDefault(id) == id = "default"

DeleteStart(ip, xpin, id) ==
    LET d == Dispatch("delete", xpin)
    IN  IF ~Denied(d) /\ IsDefault(id)
        THEN /\ gate' = [op |-> "delete", pin |-> xpin, id |-> id, decision |-> d]
             /\ resp' = Response("delete", ip, 400, "handler", None)
             /\ succ' = <<>>
             /\ expect' = Forget(expect, id)
             /\ UNCHANGED <<PIN, budget, now, loginAttempts, notepadsFile, noteFiles, reqs, streak, deleted>>
        ELSE Arrive("delete", ip, xpin, id, "none", "d_read")

\* await fs.readFile(NOTEPADS_FILE) completes: parse, findIndex, 404 or the
\* list without the entry goes to fs.writeFile.
DeleteRead(r) ==
    /\ r.pc = "d_read"
    /\ LET i == FindIndex(notepadsFile.pads, r.id)
       IN  IF notepadsFile.st # "ok" THEN Answer(r, 500, None)
           ELSE IF i = 0 THEN Answer(r, 404, None)
           ELSE /\ Becomes(r, [r EXCEPT !.pc = "d_write",
                                            !.data = Splice(notepadsFile.pads, i)])
                /\ Quiet
    /\ succ' = <<>>
    /\ UNCHANGED <<PIN, budget, now, loginAttempts, notepadsFile, noteFiles, streak, expect, deleted>>

\* The handler goes on to the note file with the registry still to be saved.
DeleteWriteSkipped(r) ==
    /\ r.pc = "d_write"
    /\ Goto(r, "d_access")
    /\ Quiet
    /\ UNCHANGED <<PIN, budget, now, loginAttempts, notepadsFile, noteFiles, streak, succ,
                   expect, deleted>>

\* await fs.writeFile(NOTEPADS_FILE, JSON.stringify(data, null, 2))
DeleteWrite(r) ==
    /\ r.pc = "d_write"
    /\ notepadsFile' = Registry(r.data)
    /\ Goto(r, "d_access")
    /\ Quiet
    /\ UNCHANGED <<PIN, budget, now, loginAttempts, noteFiles, streak, succ, expect, deleted>>

\* The delete r answers 200: the callers have been told the notepad is gone,
\* and its note with it.
Deleted(r) ==
    /\ deleted' = deleted \cup {r.id}
    /\ expect' = IF Contended(r) THEN Forget(expect, r.id) ELSE Told(expect, "delete", r.id, "")

\* await fs.access(notePath): a missing file ends in the catch, and success
\* is reported all the same.
DeleteAccess(r) ==
    /\ r.pc = "d_access"
    /\ IF r.id \in DOMAIN noteFiles
       THEN Goto(r, "d_unlink") /\ Quiet /\ UNCHANGED <<expect, deleted>>
       ELSE Answer(r, 200, [k |-> "deleted"]) /\ Deleted(r)
    /\ UNCHANGED <<PIN, budget, now, loginAttempts, notepadsFile, noteFiles, streak, succ>>

\* await fs.unlink(notePath) and res.json({success: true, ...})
DeleteUnlink(r) ==
    /\ r.pc = "d_unlink"
    /\ noteFiles' = Unlink(noteFiles, r.id)
    /\ Answer(r, 200, [k |-> "deleted"])
    /\ Deleted(r)
    /\ UNCHANGED <<PIN, budget, now, loginAttempts, notepadsFile, streak, succ>>

\* ------------------------------------------------------------ failing I/O
\* The rejection of the fs call is handled nowhere: no catch runs, nothing is
\* answered.
FsHangs(r) ==
    /\ r.pc # "c_parsed"
    /\ Goto(r, "hung")
    /\ Quiet
    /\ UNCHANGED <<PIN, budget, now, loginAttempts, notepadsFile, noteFiles, streak, succ,
                   expect, deleted>>

\* The fs calls that write notepads.json, and those that write a note.
RegistryWrites == {"e_rewrite", "e_create", "c_write", "r_write", "d_write"}
NoteWrites == {"e_writeDefault", "c_note", "s_write"}
\* The awaits whose rejection ends in a catch that answers 500.
Fatal == {"e_create", "e_writeDefault", "l_read", "c_read", "c_write", "c_note",
          "r_read", "r_write", "s_write", "d_read", "d_write"}

\* The fs call the request r waits for fails for another reason than a
\* missing file (EIO, EACCES, ENOSPC), and the catch in force takes over. At
\* pc e_access it is fs.mkdir or fs.access that fails (`call`); a write that
\* fails leaves its file as it was or cut short (`how`).
FsFails(r) ==
    \E how \in IF r.pc \in RegistryWrites \cup NoteWrites THEN {"whole", "cut"} ELSE {"whole"},
       call \in IF r.pc = "e_access" THEN {"mkdir", "access"} ELSE {"access"} :
        LET noteId == IF r.pc = "e_writeDefault" THEN "default"
                      ELSE IF r.pc = "c_note" THEN r.pad.id ELSE r.id
        IN  /\ r.pc # "c_parsed"
            /\ notepadsFile' = IF r.pc \in RegistryWrites /\ how = "cut"
                                THEN Unparseable ELSE notepadsFile
            /\ noteFiles' = IF r.pc \in NoteWrites /\ how = "cut"
                             THEN WriteNote(noteFiles, noteId, "") ELSE noteFiles
            /\ IF r.pc \in Fatal \/ (r.pc = "e_access" /\ call = "mkdir")
               THEN Answer(r, 500, None) /\ succ' = <<>> /\ UNCHANGED <<expect, deleted>>
               ELSE IF r.pc = "n_read"
               THEN /\ Answer(r, 200, [k |-> "note", content |-> ""])
                    /\ succ' = <<>>
                    /\ UNCHANGED <<expect, deleted>>
               ELSE IF r.pc \in {"d_access", "d_unlink"}
               THEN Answer(r, 200, [k |-> "deleted"]) /\ Deleted(r) /\ UNCHANGED succ
               ELSE /\ Goto(r, IF r.pc = "e_accessDefault" THEN "e_writeDefault" ELSE "e_create")
                    /\ Quiet
                    /\ UNCHANGED <<succ, expect, deleted>>
            /\ UNCHANGED <<PIN, budget, now, loginAttempts, streak>>

\* ---------------------------------------------------------- specifications
\* A notepad an earlier run of the server created, and its note.
OldPad == [id |-> "0", name |-> PadName(Len(DefaultPads) + 1)]

\* data/ as the server finds it: nothing there, a registry it cannot use, or
\* a registry an earlier run wrote.
InitFiles ==
    \/ notepadsFile = NoRegistry /\ noteFiles = <<>>
    \/ notepadsFile \in {Unparseable, Invalid, Registry(DefaultPads)}
       /\ noteFiles = [i \in {"default"} |-> ""]
    \/ notepadsFile = Registry(Append(DefaultPads, OldPad))
       /\ noteFiles = [i \in {"default", OldPad.id} |-> ""]

InitWith(envPins, ips, requests) ==
    /\ PIN \in envPins
    /\ now = 1
    /\ loginAttempts = <<>>
    /\ InitFiles
    /\ reqs = EmptyBag
    /\ gate = NoGate
    /\ resp = NoResp
    /\ streak = [ip \in ips |-> 0]
    /\ succ = <<>>
    /\ budget = requests
    /\ expect = <<>>
    /\ deleted = {}

\* Requests come from the addresses streak is kept for, with an x-pin header
\* among xpins, a body pin among pins, and an :id among ids (notepads) or
\* noteIds (notes).
NextWith(xpins, pins, ids, noteIds) ==
    \/ \E ip \in DOMAIN streak, p \in pins : VerifyPin(ip, p)
    \/ \E ip \in DOMAIN streak, x \in xpins : PinRequired(ip, x)
    \/ \E ip \in DOMAIN streak, x \in xpins : Config(ip, x)
    \/ \E ip \in DOMAIN streak, x \in xpins : ListStart(ip, x)
    \/ \E ip \in DOMAIN streak, x \in xpins : CreateStart(ip, x)
    \/ \E ip \in DOMAIN streak, x \in xpins, id \in ids : RenameStart(ip, x, id, "Renamed")
    \/ \E ip \in DOMAIN streak, x \in xpins, id \in noteIds : ReadStart(ip, x, id)
    \/ \E ip \in DOMAIN streak, x \in xpins, id \in noteIds : SaveStart(ip, x, id, "text")
    \/ \E ip \in DOMAIN streak, x \in xpins, id \in ids : DeleteStart(ip, x, id)
    \/ \E r \in InFlight : EnsureAccess(r)
    \/ \E r \in InFlight : EnsureRead(r)
    \/ \E r \in InFlight : EnsureRewrite(r)
    \/ \E r \in InFlight : EnsureCreate(r)
    \/ \E r \in InFlight : EnsureAccessDefault(r)
    \/ \E r \in InFlight : EnsureWriteDefault(r)
    \/ \E r \in InFlight : ListRead(r)
    \/ \E r \in InFlight : CreateRead(r)
    \/ \E r \in InFlight : CreateBuild(r)
    \/ \E r \in InFlight : CreateWrite(r)
    \/ \E r \in InFlight : CreateNote(r)
    \/ \E r \in InFlight : RenameRead(r)
    \/ \E r \in InFlight : RenameWrite(r)
    \/ \E r \in InFlight : NoteRead(r)
    \/ \E r \in InFlight : SaveWrite(r)
    \/ \E r \in InFlight : DeleteRead(r)
    \/ \E r \in InFlight : DeleteWrite(r)
    \/ \E r \in InFlight : DeleteAccess(r)
    \/ \E r \in InFlight : DeleteUnlink(r)
    \/ Tick
    \/ Cleanup

RightPin == Str(DigitStr(MinPinLen))
WrongPin == Str(WithLast(DigitStr(MinPinLen), "9"))

\* Requests in flight together, every one carrying the PIN the server has.
Init == InitWith({RightPin}, {"ip1"}, MaxRequests)
Next == NextWith({RightPin}, {RightPin}, {"default", "0"}, {"default", "0"})
Spec == Init /\ [][Next]_vars

\* The same with one more request, for what a caller finds after two requests
\* that ran together; the notepad renamed or deleted is the old one.
InitLong == InitWith({RightPin}, {"ip1"}, MaxRequests + 1)
NextLong == NextWith({RightPin}, {RightPin}, {"0"}, {"default", "0"})
SpecLong == InitLong /\ [][NextLong]_vars

\* The same as Spec with fs calls that may fail. Every fs call settles, and
\* Node runs the code that waits for it.
Continue(r) ==
    \/ EnsureAccess(r) \/ EnsureRead(r) \/ EnsureRewrite(r) \/ EnsureCreate(r)
    \/ EnsureAccessDefault(r) \/ EnsureWriteDefault(r)
    \/ ListRead(r)
    \/ CreateRead(r) \/ CreateBuild(r) \/ CreateWrite(r) \/ CreateNote(r)
    \/ RenameRead(r) \/ RenameWrite(r)
    \/ NoteRead(r)
    \/ SaveWrite(r)
    \/ DeleteRead(r) \/ DeleteWrite(r) \/ DeleteAccess(r) \/ DeleteUnlink(r)
Settles == \E r \in InFlight : Continue(r) \/ FsFails(r)
NextFaults ==
    \/ Next
    \/ \E r \in InFlight : FsFails(r)
SpecFaults == Init /\ [][NextFaults]_vars /\ WF_vars(Settles)

\* One request, carrying the PIN the server has, and nothing else in flight.
InitAlone == InitWith({RightPin}, {"ip1"}, 1)
SpecAlone == InitAlone /\ [][Next]_vars

\* The gate: one request at a time, under every sample of DUMBPAD_PIN and
\* with every sample of the x-pin header.
InitGate == InitWith(EnvPins, {"ip1"}, 1)
NextGate == NextWith(HeaderPins, {Undefined}, {"default", "0"}, {"default"})
SpecGate == InitGate /\ [][NextGate]_vars

\* The exempt routes and the brute force protection: one request at a time,
\* with no PIN, a PIN that is none, or a PIN, and right, wrong and malformed
\* pins in the header and in the body.
MalformedPin == Str(WithLast(DigitStr(MinPinLen), "a"))
InitVerify == InitWith({Undefined, MalformedPin, RightPin}, {"ip1"}, 1)
NextVerify == NextWith({Undefined, MalformedPin, WrongPin},
                       {Undefined, MalformedPin, WrongPin, RightPin, Num(1234)},
                       {"default", "0"}, {"default"})
SpecVerify == InitVerify /\ [][NextVerify]_vars

\* The brute force map on its own: isLockedOut, called by GET
\* /api/pin-required, and the sweep, over maps with a record below, at and
\* above MAX_ATTEMPTS for each of two addresses, last touched at 0 or 1, and
\* clocks inside the lockout window, at its end and past it.
LimiterIps == {"ip1", "ip2"}
LimiterRecords ==
    [count : {1, MAX_ATTEMPTS - 1, MAX_ATTEMPTS, MAX_ATTEMPTS + 1}, lastAttempt : {0, 1}]
LimiterMaps ==
    UNION {[known -> LimiterRecords] : known \in SUBSET LimiterIps}
InitLimiter ==
    /\ PIN = RightPin
    /\ now \in {1, LOCKOUT_TIME - 1, LOCKOUT_TIME, LOCKOUT_TIME + 1}
    /\ loginAttempts \in LimiterMaps
    /\ notepadsFile = Registry(DefaultPads)
    /\ noteFiles = [i \in {"default"} |-> ""]
    /\ reqs = EmptyBag
    /\ gate = NoGate
    /\ resp = NoResp
    /\ streak = [ip \in LimiterIps |-> 0]
    /\ succ = <<>>
    /\ budget = 0
    /\ expect = <<>>
    /\ deleted = {}
NextLimiter ==
    \/ \E ip \in LimiterIps : PinRequired(ip, Undefined)
    \/ Cleanup
    \/ Tick
SpecLimiter == InitLimiter /\ [][NextLimiter]_vars

\* ------------------------------------------------------------------ claims
GatedOps == {"list", "create", "rename", "read", "save", "delete"}
ExemptOps == {"verify-pin", "pin-required", "config"}

\* A string of 4 to 10 decimal digits.
FourToTenDigits(v) ==
    /\ v.type = "string"
    /\ Len(v.val) \in 4..10
    /\ \A i \in DOMAIN v.val : v.val[i] \in Digits

\* The handler of the request the gate has just let through has run: the
\* request is in flight, or the handler has answered already.
HandlerRan == (\E r \in InFlight : r.op = gate.op) \/ resp.by = "handler"

C1_Decision ==
    (FourToTenDigits(PIN) /\ gate.op \in GatedOps) =>
        IF gate.pin = Undefined \/ ~FourToTenDigits(gate.pin)
        THEN gate.decision = "400" /\ resp.by = "gate" /\ resp.status = 400
        ELSE IF gate.pin = PIN
        THEN gate.decision = "next" /\ HandlerRan
        ELSE gate.decision = "401" /\ resp.by = "gate" /\ resp.status = 401

C1_Frame ==
    [][Denied(gate'.decision) => UNCHANGED <<notepadsFile, noteFiles, reqs>>]_vars

\* C1: with a PIN of 4 to 10 digits configured, a gated request is answered
\* 400 by the gate when its x-pin is missing or malformed, let through to its
\* handler when the x-pin equals the PIN, and answered 401 otherwise; a
\* request the gate turns away starts no handler and changes no file.
C1_GateDecides == []C1_Decision /\ C1_Frame

\* A 4 digit x-pin is turned away with 401 under a 10 digit PIN.
C1_Witness ==
    /\ FourToTenDigits(PIN) /\ Len(PIN.val) = 10
    /\ gate.op = "save" /\ FourToTenDigits(gate.pin)
    /\ gate.decision = "401" /\ resp.status = 401

\* C2: with DUMBPAD_PIN unset, empty or not 4 to 10 digits (GET
\* /api/pin-required then reports required: false), every gated request is
\* let through, whatever x-pin it carries.
C2_DisabledGateAllows ==
    (~FourToTenDigits(PIN) /\ gate.op \in GatedOps) => gate.decision = "next"

\* C3: POST /api/verify-pin, GET /api/pin-required and GET /api/config are
\* never turned away by the gate: under every PIN and with every pin in the
\* request, the route's own handler answers.
C3_ExemptAnswered ==
    gate.op \in ExemptOps =>
        /\ ~Denied(gate.decision)
        /\ resp.op = gate.op
        /\ resp.by = "handler"
        /\ resp.status \in {200, 400, 401}

\* GET /api/config with a wrong x-pin is answered 200 while a PIN is set.
C3_Witness ==
    /\ PIN = RightPin
    /\ gate.op = "config" /\ gate.pin = WrongPin
    /\ resp.op = "config" /\ resp.status = 200

\* C4: after MAX_ATTEMPTS consecutive 401 answers of POST /api/verify-pin to
\* one address, all inside the lockout window, GET /api/pin-required from
\* that address reports locked: true.
C4_LockedAfterMaxAttempts ==
    (/\ resp.op = "pin-required"
     /\ streak[resp.ip] >= MAX_ATTEMPTS
     /\ now < LOCKOUT_TIME)
        => resp.body.locked

C6_VerifyRecords ==
    [][resp'.op = "verify-pin" =>
          LET ip == resp'.ip
              before == IF ip \in DOMAIN loginAttempts THEN loginAttempts[ip].count ELSE 0
          IN  /\ resp'.status = 401 =>
                    /\ ip \in DOMAIN loginAttempts'
                    /\ loginAttempts'[ip].count = before + 1
                    /\ loginAttempts'[ip].lastAttempt = now
              /\ resp'.body.success => ip \notin DOMAIN loginAttempts'
              /\ \A o \in (DOMAIN loginAttempts) \ {ip} :
                    o \in DOMAIN loginAttempts' /\ loginAttempts'[o] = loginAttempts[o]]_vars

\* C7: DELETE /api/notepads/default that reaches its handler is answered 400
\* at once, whatever the registry file holds and whatever is in flight, and
\* changes neither the registry nor any note.
C7_DeleteDefaultRefused ==
    [][(gate'.op = "delete" /\ gate'.id = "default" /\ ~Denied(gate'.decision)) =>
          /\ resp'.op = "delete" /\ resp'.status = 400 /\ resp'.by = "handler"
          /\ UNCHANGED <<notepadsFile, noteFiles, reqs>>]_vars

\* The 400 is given while another request is in flight and the default entry
\* carries another name.
C7_Witness ==
    /\ resp.op = "delete" /\ resp.status = 400 /\ resp.by = "handler"
    /\ reqs # EmptyBag
    /\ notepadsFile.st = "ok" /\ notepadsFile.pads[1].name = "Renamed"

\* C8: whenever notepads.json is there and holds a list of notepads, exactly
\* one of them has the id "default".
C8_OneDefault ==
    notepadsFile.st = "ok" =>
        Cardinality({i \in 1..Len(notepadsFile.pads) : notepadsFile.pads[i].id = "default"}) = 1

\* A notepad has been deleted with another request in flight.
C8_Witness ==
    /\ resp.op = "delete" /\ resp.status = 200
    /\ notepadsFile.st = "ok"
    /\ reqs # EmptyBag

\* C9: no two entries of the registry have the same id.
C9_UniqueIds ==
    notepadsFile.st = "ok" =>
        \A i, j \in 1..Len(notepadsFile.pads) :
            i # j => notepadsFile.pads[i].id # notepadsFile.pads[j].id

\* C10: two POST /api/notepads, the second sent once the first is answered
\* and nothing in between, answer notepads with different ids, named
\* `Notepad N` and `Notepad N+1`, and the registry then holds both.
C10_TwoCreates ==
    Len(succ) = 2 =>
        /\ succ[1].id # succ[2].id
        /\ \E n \in 1..(Len(notepadsFile.pads) + 1) :
              succ[1].name = PadName(n) /\ succ[2].name = PadName(n + 1)
        /\ \E i, j \in 1..Len(notepadsFile.pads) :
              i # j /\ notepadsFile.pads[i] = succ[1] /\ notepadsFile.pads[j] = succ[2]

\* The step answers the GET /api/notes/:id request r.
ReadAnswered(r) ==
    r.op = "read" /\ resp'.op = "read" /\ reqs' = reqs (-) SetToBag({r})

\* What the callers had been told about the note when the read r was sent
\* stands when it is answered: no save or delete of the id has been sent since.
Stands(r) ==
    /\ r.id \in DOMAIN r.sent.told
    /\ r.id \in DOMAIN expect
    /\ expect[r.id] = r.sent.told[r.id]

\* C11: GET /api/notes/:id sent after a POST /api/notes/:id of the id has
\* answered 200 is answered 200 with exactly the text of that save, when no
\* other save or delete of the id has been sent since that save was sent; and
\* with the empty string, not an error, when the id has no note file.
C11_RoundTrip ==
    [][\A r \in InFlight :
          ReadAnswered(r) =>
              /\ resp'.status = 200
              /\ (Stands(r) /\ expect[r.id].by = "save")
                    => resp'.body.content = expect[r.id].text
              /\ r.id \notin DOMAIN noteFiles => resp'.body.content = ""]_vars

\* The step answers the GET /api/notepads request r with a list.
ListAnswered(r) ==
    r.op = "list" /\ resp'.op = "list" /\ resp'.status = 200 /\ reqs' = reqs (-) SetToBag({r})

\* C12: once DELETE /api/notepads/:id of a notepad other than the default has
\* answered 200, a GET /api/notepads sent after that is answered a list
\* without the id, and a GET /api/notes/:id sent after that is answered 200
\* with the empty string, as long as no save of the id has been sent since.
C12_DeletedIsGone ==
    [][\A r \in InFlight :
          /\ ListAnswered(r) =>
                \A i \in 1..Len(resp'.body.notepads) :
                    resp'.body.notepads[i].id \notin r.sent.deleted
          /\ (ReadAnswered(r) /\ Stands(r) /\ expect[r.id].by = "delete") =>
                resp'.status = 200 /\ resp'.body.content = ""]_vars

\* notepads.json is missing, is not JSON, or has no array under "notepads".
Corrupt(st) == st \in {"absent", "unparseable", "invalid"}

\* C13: a GET /api/notepads sent while notepads.json is missing, unparseable
\* or without an array under "notepads", and running alone, is answered 200
\* with exactly one entry, whose id is "default", and leaves notepads.json
\* holding that one entry.
C13_ListHeals ==
    [][\A r \in InFlight :
          (/\ r.op = "list"
           /\ Corrupt(r.sent.st)
           /\ resp'.op = "list"
           /\ reqs' = reqs (-) SetToBag({r}))
              => /\ resp'.status = 200
                 /\ resp'.body.st = "ok"
                 /\ Len(resp'.body.notepads) = 1
                 /\ resp'.body.notepads[1].id = "default"
                 /\ notepadsFile' = Registry(resp'.body.notepads)]_vars

\* A list that found text that is not JSON has rewritten the file and is
\* about to read it back.
C13_Witness ==
    \E r \in InFlight :
        /\ r.op = "list" /\ r.pc = "l_read" /\ r.sent.st = "unparseable"
        /\ notepadsFile = Registry(DefaultPads)

\* The ids of the entries of notepads.json.
RegistryIds == {notepadsFile.pads[i].id : i \in 1..Len(notepadsFile.pads)}

\* C14: no create that reported success is lost to another request's write
\* of the copy of notepads.json it read earlier: when POST /api/notepads
\* answers 200, the notepad it answers with is an entry of the registry (no
\* request renames or deletes an id other than "default" and "0").
C14_NoLostCreate ==
    (resp.op = "create" /\ resp.status = 200) =>
        /\ notepadsFile.st = "ok"
        /\ \E i \in 1..Len(notepadsFile.pads) : notepadsFile.pads[i] = resp.body.pad

\* C15: once DELETE /api/notepads/:id has answered 200 for the id of the old
\* notepad, which no create can give out again, the registry never again
\* holds an entry with that id.
C15_DeletedStaysDeleted ==
    \A id \in deleted : id \notin RegistryIds

\* C16: no GET /api/notepads, POST /api/notepads, PUT /api/notepads/:id or
\* DELETE /api/notepads/:id is answered 500 on account of notepads.json being
\* missing, unparseable or without its array: the handler answers otherwise
\* and leaves a registry that holds a list.
C16_NoStorageError ==
    (/\ resp.by = "handler"
     /\ resp.op \in {"list", "create", "rename", "delete"}
     /\ ~(resp.op = "delete" /\ resp.status = 400)) =>
        /\ resp.status # 500
        /\ notepadsFile.st = "ok"

\* The step is one of the DELETE /api/notepads/:id request r, which goes on
\* to `pc`, or is answered (pc "done").
DeleteGoes(r, pc) ==
    /\ r.op = "delete"
    /\ IF pc = "done"
       THEN resp'.op = "delete" /\ reqs' = reqs (-) SetToBag({r})
       ELSE reqs' = (reqs (-) SetToBag({r})) (+) SetToBag({[r EXCEPT !.pc = pc]})

\* C17: DELETE /api/notepads/:id of an entry of the registry turns to the
\* note file only in the step that has saved the registry without the entry
\* it found; it removes the note and reports success only after that; and
\* when it reports success, with the note removed or, the removal having
\* failed, still there, the step leaves the registry as the delete saved it
\* or as others have saved it since.
C17_RegistryFirst ==
    [][\A r \in InFlight :
          /\ (r.pc # "d_access" /\ DeleteGoes(r, "d_access")) =>
                /\ r.pc = "d_write"
                /\ notepadsFile' = Registry(r.data)
                /\ \A i \in 1..Len(r.data) : r.data[i].id # r.id
          /\ (DeleteGoes(r, "done") /\ resp'.status = 200) =>
                /\ r.pc \in {"d_access", "d_unlink"}
                /\ UNCHANGED notepadsFile
          /\ (DeleteGoes(r, "done") /\ noteFiles' # noteFiles) =>
                /\ r.pc = "d_unlink"
                /\ resp'.status = 200]_vars

\* The delete has reported success with the note file still there (the
\* unlink failed) and the registry without the entry.
C17_Witness ==
    /\ resp.op = "delete" /\ resp.status = 200
    /\ "0" \in deleted
    /\ "0" \in DOMAIN noteFiles
    /\ notepadsFile.st = "ok" /\ "0" \notin RegistryIds

\* The step answers the PUT /api/notepads/:id request r.
RenameAnswered(r) ==
    r.op = "rename" /\ resp'.op = "rename" /\ reqs' = reqs (-) SetToBag({r})

\* C18: PUT /api/notepads/:id answers 404 and leaves notepads.json as it is
\* when the registry has no entry with the id; when it answers 200, its step
\* changes nothing in notepads.json but the name of the entry with the id
\* (as many entries, in the same order, with the same ids, every other entry
\* as it was), and changes no note.
C18_RenameFrame ==
    [][\A r \in InFlight :
          /\ (RenameAnswered(r) /\ resp'.status = 404) =>
                /\ r.id \notin RegistryIds
                /\ UNCHANGED <<notepadsFile, noteFiles>>
          /\ (RenameAnswered(r) /\ resp'.status = 200) =>
                /\ notepadsFile.st = "ok" /\ notepadsFile'.st = "ok"
                /\ Len(notepadsFile'.pads) = Len(notepadsFile.pads)
                /\ \A i \in 1..Len(notepadsFile.pads) :
                      /\ notepadsFile'.pads[i].id = notepadsFile.pads[i].id
                      /\ notepadsFile.pads[i].id # r.id
                            => notepadsFile'.pads[i] = notepadsFile.pads[i]
                /\ \E i \in 1..Len(notepadsFile'.pads) :
                      notepadsFile'.pads[i] = [id |-> r.id, name |-> r.arg]
                /\ UNCHANGED noteFiles]_vars

C20_Routed ==
    /\ gate.op # "none" => (resp.op = gate.op \/ \E r \in InFlight : r.op = gate.op)
    /\ resp.op # "none" => resp.status \in {200, 400, 401, 404, 500}

\* A request leaves the ones in flight by being answered, one per answer.
C20_Once ==
    [][/\ BagCardinality(reqs') < BagCardinality(reqs) =>
              /\ resp'.by = "handler"
              /\ BagCardinality(reqs') = BagCardinality(reqs) - 1
       /\ (resp'.by = "handler" /\ gate'.op = "none") =>
              BagCardinality(reqs') = BagCardinality(reqs) - 1]_vars

\* C20: every request is answered, and once: the gate or the handler answers
\* it in the step that routes it, or it is in flight, and a request in flight
\* is in the end answered by its handler with 200, 400, 404 or 500, also
\* when its file reads, writes, parses or unlinks fail; no request stays in
\* flight for ever.
C20_EveryRequestAnswered ==
    /\ []C20_Routed
    /\ C20_Once
    /\ \A op \in GatedOps :
          (\E r \in InFlight : r.op = op) ~> (resp.op = op /\ resp.by = "handler")
    /\ (reqs # EmptyBag) ~> (reqs = EmptyBag)

\* A save one of whose fs calls failed has been answered 500.
C20_Witness ==
    /\ resp.op = "save" /\ resp.by = "handler" /\ resp.status = 500
    /\ notepadsFile.st = "ok"

====
